---- MODULE Spec2Model ----
(***************************************************************************)
(* A model of EventsManager (src/main.py): the registry of handler records *)
(* kept per event key, and its operations register, deregister and emit,   *)
(* called one after the other by a single caller (Spec), on several        *)
(* instances (SpecInstances), in thread-safe mode (SpecThreadSafe), by      *)
(* concurrent threads (SpecThreads), and with handlers that fail or call    *)
(* back into the registry during emit (SpecDispatch).                       *)
(*                                                                         *)
(* Python values are modelled as records [type, val]: the type decides     *)
(* callable(), truthiness and type(x) == type(1); val is the integer of an *)
(* int, 0/1 of a bool, the length of a str or list, the identity of a      *)
(* function.                                                               *)
(***************************************************************************)
EXTENDS Integers, Sequences, FiniteSets, TLC

\* ------------------------------------------------------------------ bounds
\* The size of the registry: its event keys plus its handler records. With 4
\* the registry holds up to three records under one key, or two keys with one
\* record each, or one key with two.
MaxSize == 4
\* The number of EventsManager instances constructed.
MaxManagers == 2
\* The number of threads that call into one instance at the same time.
NumThreads == 2

\* ------------------------------------------------------------ Python values
PyNone == [type |-> "NoneType", val |-> 0]
PyFunc(n) == [type |-> "function", val |-> n]
PyInt(n) == [type |-> "int", val |-> n]
PyStr(len) == [type |-> "str", val |-> len]
PyList(len) == [type |-> "list", val |-> len]
PyBool(b) == [type |-> "bool", val |-> IF b THEN 1 ELSE 0]

\* The two handler callables of the model, and a value that is not callable.
h == PyFunc(1)
g == PyFunc(2)
NotCallable == PyStr(3)

\* bool(v): None, 0, False, "" and [] are falsy; functions are truthy.
Truthy(v) ==
    CASE v.type = "NoneType" -> FALSE
      [] v.type = "function" -> TRUE
      [] OTHER -> v.val # 0

\* callable(v)
callable(v) == v.type = "function"

\* type(v) == type(1): exactly int; a bool is not of type int.
TypeIsInt(v) == v.type = "int"

\* v == n for a Python int n: ints and bools compare by number (False == 0,
\* True == 1); no other modelled value equals an int.
EqInt(v, n) == v.type \in {"int", "bool"} /\ v.val = n

\* a == b for two modelled values.
PyEq(a, b) ==
    IF a.type \in {"int", "bool"} /\ b.type \in {"int", "bool"}
    THEN a.val = b.val
    ELSE a = b

\* ------------------------------------------------------------------ inputs
Events == {"k", "j"}

\* **kwargs: a mapping from names to values; EmptyKwargs is {}.
EmptyKwargs == [n \in {} |-> 0]
Kw(name, value) == [n \in {name} |-> value]

\* register(event, handler, *args, **kwargs): the (handler, args, kwargs)
\* the model registers.
Registrations ==
    { <<h, <<"A">>, EmptyKwargs>>,
      <<h, <<>>, Kw("x", 1)>>,
      <<g, <<"A", "B">>, Kw("x", 1)>>,
      <<NotCallable, <<"A">>, EmptyKwargs>> }

\* deregister(event, handler_callable_or_id, *args, **kwargs): the
\* (selector, args, kwargs) the model tries.
Deregistrations ==
    { \* no selector: alone, and with positional match arguments
      <<PyNone, <<>>, EmptyKwargs>>,
      <<PyNone, <<"A">>, EmptyKwargs>>,
      \* a handler reference: alone, narrowed by args, narrowed by kwargs
      <<h, <<>>, EmptyKwargs>>,
      <<g, <<>>, EmptyKwargs>>,
      <<h, <<"A">>, EmptyKwargs>>,
      <<h, <<>>, Kw("x", 1)>>,
      \* a handler_id: alone, and narrowed by both args and kwargs
      <<PyInt(0), <<>>, EmptyKwargs>>,
      <<PyInt(1), <<>>, EmptyKwargs>>,
      <<PyInt(0), <<"A", "B">>, Kw("x", 1)>>,
      \* neither None, nor callable, nor int: '', 'abc', [], True, False
      <<PyStr(0), <<>>, EmptyKwargs>>,
      <<PyStr(3), <<>>, EmptyKwargs>>,
      <<PyList(0), <<>>, EmptyKwargs>>,
      <<PyBool(TRUE), <<>>, EmptyKwargs>>,
      <<PyBool(FALSE), <<>>, EmptyKwargs>> }

\* emit(event, *args, **kwargs): the (args, kwargs) the model emits with.
Emissions ==
    { <<<<>>, EmptyKwargs>>,
      <<<<>>, Kw("x", 2)>>,
      <<<<"C">>, Kw("y", 2)>> }

\* ------------------------------------------------------------------- state
VARIABLES
    _handlers,    \* EventsManager._handlers (a class attribute, line 18):
                  \* event -> list of handler records
    thread_lock,  \* "absent" (thread_safe False), "free" or "held"
    pre,          \* _handlers as it was when the last call was made
    last,         \* the last call: its name and arguments
    raised,       \* the exception the last call raised, or "none"
    calls,        \* the handler invocations the last call made, in order
    managers,     \* the number of EventsManager instances constructed so far
    caller,       \* the instance the last call was made on
    dispatch,     \* the progress of the loop of emit (lines 160-181)
    pc,           \* per thread: where it is in its call
    tcall,        \* per thread: the call it makes
    local         \* per thread: the local variables handler_id and pop_indexes

vars == <<_handlers, thread_lock, pre, last, raised, calls,
          managers, caller, dispatch, pc, tcall, local>>

Threads == 1..NumThreads

Call(op, event, target, args, kwargs) ==
    [op |-> op, event |-> event, target |-> target, args |-> args, kwargs |-> kwargs]

\* The number of event keys plus the number of handler records.
Size(handlers) ==
    LET RECURSIVE Sum(_)
        Sum(S) == IF S = {} THEN 0
                  ELSE LET e == CHOOSE e \in S : TRUE
                       IN 1 + Len(handlers[e]) + Sum(S \ {e})
    IN Sum(DOMAIN handlers)

\* No emit is being dispatched.
Idle == [status |-> "idle", index |-> 0, registered |-> FALSE, deregistered |-> FALSE]

NoLocals == [handler_id |-> 0, pop_indexes |-> <<>>]

\* The module is loaded (the class attribute _handlers is the empty dict of
\* line 18) and the first instance is constructed with the given mode.
InitMode(thread_safe) ==
    /\ _handlers = [e \in {} |-> <<>>]
    /\ thread_lock = (IF thread_safe THEN "free" ELSE "absent")
    /\ pre = [e \in {} |-> <<>>]
    /\ last = Call("init", "", PyNone, <<>>, EmptyKwargs)
    /\ raised = "none"
    /\ calls = <<>>
    /\ managers = 1
    /\ caller = 1
    /\ dispatch = Idle
    /\ pc = [t \in Threads |-> "start"]
    /\ tcall = [t \in Threads |-> Call("init", "", PyNone, <<>>, EmptyKwargs)]
    /\ local = [t \in Threads |-> NoLocals]

\* EventsManager(): thread_safe is False by default, and then no lock is created.
Init == InitMode(FALSE)

\* EventsManager(thread_safe=True): lines 28-29 create the lock.
InitThreadSafe == InitMode(TRUE)

\* An acquire that never blocks.
CanAcquire_Always == TRUE

\* `if self.thread_safe: self.thread_lock.acquire()`: blocks while the lock is held.
CanAcquire == thread_lock # "held"
\* An acquire that returns without taking the lock.
LockAfterAcquire_NotTaken == thread_lock

\* The lock once acquire has returned (lines 67-68, 101-102).
LockAfterAcquire == IF thread_lock = "absent" THEN "absent" ELSE "held"
\* `if self.thread_safe: self.thread_lock.release()` (lines 92-93, 147-148).
LockReleased == IF thread_lock = "absent" THEN "absent" ELSE "free"
\* The lock after a call that raised between acquire and release: still held.
LockAfterRaise == IF thread_lock = "absent" THEN "absent" ELSE "held"
\* The lock after acquire ... release.
LockAfterRelease == thread_lock

\* ---------------------------------------------------------------- register
\* One pass of `for _handler in self._handlers[event]` from handler_id = id.
IdPass(list, id) ==
    LET RECURSIVE Step(_, _)
        Step(i, cur) ==
            IF i > Len(list) THEN cur
            ELSE Step(i + 1, IF cur = list[i].handler_id THEN cur + 1 ELSE cur)
    IN Step(1, id)

\* FindHandlerId with the `while not unique` loop left out: a single pass.
FindHandlerId_OnePass(list, id) == IdPass(list, id)

\* `while not unique`: passes are repeated until one finds no equal handler_id.
RECURSIVE FindHandlerId(_, _)
FindHandlerId(list, id) ==
    LET next == IdPass(list, id)
    IN IF next = id THEN id ELSE FindHandlerId(list, next)

\* NewHandlerId taking the number of records as the next id.
NewHandlerId_Length(list) == Len(list)

NewHandlerId(list) == FindHandlerId(list, 0)

HandlerRecord(handler, handler_id, args, kwargs) ==
    [handler |-> handler, handler_id |-> handler_id, args |-> <<args, kwargs>>]

\* The mapping after register(event, handler, *args, **kwargs) of a callable.
RegisterResult(handlers, event, handler, args, kwargs) ==
    LET list == IF event \in DOMAIN handlers THEN handlers[event] ELSE <<>>
        rec == HandlerRecord(handler, NewHandlerId(list), args, kwargs)
    IN [e \in DOMAIN handlers \cup {event} |->
            IF e = event THEN Append(list, rec) ELSE handlers[e]]

\* register creating the key's list (lines 73-74) before the callable test.
register_CreateKeyFirst(event, handler, args, kwargs) ==
    /\ CanAcquire
    /\ pre' = _handlers
    /\ last' = Call("register", event, handler, args, kwargs)
    /\ calls' = <<>>
    /\ IF ~callable(handler)
       THEN /\ raised' = "TypeError"
            /\ thread_lock' = LockAfterRaise
            /\ _handlers' = [e \in DOMAIN _handlers \cup {event} |->
                                IF e \in DOMAIN _handlers THEN _handlers[e] ELSE <<>>]
       ELSE /\ raised' = "none"
            /\ thread_lock' = LockAfterRelease
            /\ _handlers' = RegisterResult(_handlers, event, handler, args, kwargs)

register(event, handler, args, kwargs) ==
    /\ CanAcquire
    /\ pre' = _handlers
    /\ last' = Call("register", event, handler, args, kwargs)
    /\ calls' = <<>>
    /\ IF ~callable(handler)
       THEN /\ raised' = "TypeError"
            /\ thread_lock' = LockAfterRaise
            /\ UNCHANGED _handlers
       ELSE /\ raised' = "none"
            /\ thread_lock' = LockAfterRelease
            /\ _handlers' = RegisterResult(_handlers, event, handler, args, kwargs)

\* A registration is tried while the registry it would give fits the bound.
Register ==
    \E event \in Events, r \in Registrations :
        /\ Size(_handlers) + (IF event \in DOMAIN _handlers THEN 1 ELSE 2) <= MaxSize
        /\ register(event, r[1], r[2], r[3])
        /\ UNCHANGED <<managers, caller, dispatch, pc, tcall, local>>

\* -------------------------------------------------------------- deregister
\* index comparing only the record's handler, not the whole record.
index_ByHandler(list, record) ==
    (CHOOSE i \in 1..Len(list) :
        /\ list[i].handler = record.handler
        /\ \A j \in 1..(i - 1) : list[j].handler # record.handler) - 1

\* list.index(handler): the 0-based position of the first equal record.
index(list, record) ==
    (CHOOSE i \in 1..Len(list) :
        /\ list[i] = record
        /\ \A j \in 1..(i - 1) : list[j] # record) - 1

\* list.pop(i) for a 0-based position i of the list.
pop(list, i) ==
    [j \in 1..(Len(list) - 1) |-> IF j <= i THEN list[j] ELSE list[j + 1]]

\* `handler_callable_or_id != 0 and not handler_callable_or_id`: the selector
\* is taken to be absent; every record is marked for removal.
SelectsAll(selector) == ~EqInt(selector, 0) /\ ~Truthy(selector)

\* The test of line 121: the selector is a callable equal to the record's
\* handler, or it equals the record's handler_id.
SelectorMatches(selector, record) ==
    \/ callable(selector) /\ PyEq(selector, record.handler)
    \/ EqInt(selector, record.handler_id)

\* Lines 122-135: the narrowing by *args and **kwargs.
ArgsMatch(args, kwargs, record) ==
    LET registered_handler_args == record.args[1]
        registered_handler_kwargs == record.args[2]
    IN IF args # <<>> /\ kwargs = EmptyKwargs
         THEN args = registered_handler_args
       ELSE IF kwargs # EmptyKwargs /\ args = <<>>
         THEN kwargs = registered_handler_kwargs
       ELSE IF args # <<>> /\ kwargs # EmptyKwargs
         THEN args = registered_handler_args /\ kwargs = registered_handler_kwargs
       ELSE TRUE

\* Whether the loop of lines 111-135 appends the record's index to pop_indexes.
Marked(selector, args, kwargs, record) ==
    IF SelectsAll(selector) THEN TRUE
    ELSE SelectorMatches(selector, record) /\ ArgsMatch(args, kwargs, record)

\* pop_indexes after the loop of lines 111-135.
PopIndexes(list, selector, args, kwargs) ==
    LET RECURSIVE Scan(_)
        Scan(i) ==
            IF i > Len(list) THEN <<>>
            ELSE (IF Marked(selector, args, kwargs, list[i])
                  THEN <<index(list, list[i])>> ELSE <<>>) \o Scan(i + 1)
    IN Scan(1)

\* Lines 138-139: pop_indexes[index] = value - index.
AdjustIndexes(pop_indexes) ==
    [i \in 1..Len(pop_indexes) |-> pop_indexes[i] - (i - 1)]

\* PopAll stopping after the first pop.
PopAll_FirstOnly(list, pop_indexes) ==
    IF pop_indexes = <<>> THEN list ELSE pop(list, Head(pop_indexes))

\* Lines 141-142: the list after popping each index in turn.
RECURSIVE PopAll(_, _)
PopAll(list, pop_indexes) ==
    IF pop_indexes = <<>> THEN list
    ELSE PopAll(pop(list, Head(pop_indexes)), Tail(pop_indexes))

\* The assertions of lines 104-107 pass.
SelectorAccepted(selector) ==
    Truthy(selector) => (callable(selector) \/ TypeIsInt(selector))

\* DeregisterResult without lines 144-145: an emptied list keeps its key.
DeregisterResult_KeepKey(handlers, event, selector, args, kwargs) ==
    [e \in DOMAIN handlers |->
        IF e = event
        THEN PopAll(handlers[e],
                    AdjustIndexes(PopIndexes(handlers[e], selector, args, kwargs)))
        ELSE handlers[e]]

\* The mapping after a deregister that passed its assertions (lines 109-145).
DeregisterResult(handlers, event, selector, args, kwargs) ==
    LET list == PopAll(handlers[event],
                       AdjustIndexes(PopIndexes(handlers[event], selector, args, kwargs)))
    IN IF Len(list) = 0
       THEN [e \in DOMAIN handlers \ {event} |-> handlers[e]]
       ELSE [e \in DOMAIN handlers |-> IF e = event THEN list ELSE handlers[e]]

\* deregister returning quietly, instead of asserting, when the event is absent.
deregister_NoKeyCheck(event, selector, args, kwargs) ==
    /\ CanAcquire
    /\ pre' = _handlers
    /\ last' = Call("deregister", event, selector, args, kwargs)
    /\ calls' = <<>>
    /\ IF event \notin DOMAIN _handlers
       THEN /\ raised' = "none"
            /\ thread_lock' = LockAfterRelease
            /\ UNCHANGED _handlers
       ELSE IF ~SelectorAccepted(selector)
       THEN /\ raised' = "AssertionError"
            /\ thread_lock' = LockAfterRaise
            /\ UNCHANGED _handlers
       ELSE /\ raised' = "none"
            /\ thread_lock' = LockAfterRelease
            /\ _handlers' = DeregisterResult(_handlers, event, selector, args, kwargs)

deregister(event, selector, args, kwargs) ==
    /\ CanAcquire
    /\ pre' = _handlers
    /\ last' = Call("deregister", event, selector, args, kwargs)
    /\ calls' = <<>>
    /\ IF event \notin DOMAIN _handlers \/ ~SelectorAccepted(selector)
       THEN /\ raised' = "AssertionError"
            /\ thread_lock' = LockAfterRaise
            /\ UNCHANGED _handlers
       ELSE /\ raised' = "none"
            /\ thread_lock' = LockAfterRelease
            /\ _handlers' = DeregisterResult(_handlers, event, selector, args, kwargs)

Deregister ==
    \E event \in Events, d \in Deregistrations :
        /\ deregister(event, d[1], d[2], d[3])
        /\ UNCHANGED <<managers, caller, dispatch, pc, tcall, local>>

\* -------------------------------------------------------------------- emit
\* dict.update: the entries of b override the same-named entries of a.
update(a, b) ==
    [n \in DOMAIN a \cup DOMAIN b |-> IF n \in DOMAIN b THEN b[n] ELSE a[n]]

\* NewArgs laying the call's args over the first defaults and keeping the rest.
NewArgs_PartialMerge(record, args) ==
    args \o SubSeq(record.args[1], Len(args) + 1, Len(record.args[1]))

\* Line 166.
NewArgs(record, args) == IF args # <<>> THEN args ELSE record.args[1]

\* NewKwargs without the else branch: a record with no named defaults gets
\* no named arguments.
NewKwargs_NoElse(record, kwargs) ==
    LET copy == record.args[2]
    IN IF copy # EmptyKwargs THEN update(copy, kwargs) ELSE copy

\* Lines 168-172.
NewKwargs(record, kwargs) ==
    LET copy == record.args[2]
    IN IF copy # EmptyKwargs THEN update(copy, kwargs) ELSE kwargs

\* One invocation as the handler sees it: which record's handler was called,
\* and the positional and named arguments it received.
Invocation(record, args, kwargs) ==
    [handler |-> record.handler, handler_id |-> record.handler_id,
     args |-> args, kwargs |-> kwargs]

\* Lines 174-181: the call made for one record.
Invoke(record, args, kwargs) ==
    LET new_args == NewArgs(record, args)
        new_kwargs == NewKwargs(record, kwargs)
    IN IF new_args # <<>> /\ new_kwargs = EmptyKwargs
         THEN Invocation(record, new_args, EmptyKwargs)
       ELSE IF new_kwargs # EmptyKwargs /\ new_args = <<>>
         THEN Invocation(record, <<>>, new_kwargs)
       ELSE IF new_args # <<>> /\ new_kwargs # EmptyKwargs
         THEN Invocation(record, new_args, new_kwargs)
       ELSE Invocation(record, <<>>, EmptyKwargs)

\* EmitCalls visiting the records by ascending handler_id.
EmitCalls_ByHandlerId(handlers, event, args, kwargs) ==
    IF event \notin DOMAIN handlers THEN <<>>
    ELSE LET list == handlers[event]
             Rank(i) == Cardinality({ j \in 1..Len(list) :
                                        list[j].handler_id < list[i].handler_id })
         IN [n \in 1..Len(list) |->
                Invoke(list[CHOOSE i \in 1..Len(list) : Rank(i) = n - 1], args, kwargs)]

\* The invocations of `for handler in self._handlers[event]`, in list order.
EmitCalls(handlers, event, args, kwargs) ==
    IF event \notin DOMAIN handlers THEN <<>>
    ELSE [i \in 1..Len(handlers[event]) |-> Invoke(handlers[event][i], args, kwargs)]

\* StoredAfterInvoke without the .copy() of line 168: the update of line 170
\* is written into the record's own kwargs.
StoredAfterInvoke_NoCopy(record, kwargs) ==
    [record EXCEPT !.args =
        <<@[1], IF @[2] # EmptyKwargs THEN update(@[2], kwargs) ELSE @[2]>>]

\* The stored record after lines 161-181 ran for it: new_kwargs is a copy
\* (line 168) and new_args a fresh name, so the record is as it was.
StoredAfterInvoke(record, kwargs) == record

\* The mapping after the loop of lines 160-181.
EmitResult(handlers, event, kwargs) ==
    IF event \notin DOMAIN handlers THEN handlers
    ELSE [e \in DOMAIN handlers |->
            IF e = event
            THEN [i \in 1..Len(handlers[e]) |-> StoredAfterInvoke(handlers[e][i], kwargs)]
            ELSE handlers[e]]

\* emit takes no lock.
emit(event, args, kwargs) ==
    /\ pre' = _handlers
    /\ last' = Call("emit", event, PyNone, args, kwargs)
    /\ raised' = "none"
    /\ calls' = EmitCalls(_handlers, event, args, kwargs)
    /\ _handlers' = EmitResult(_handlers, event, kwargs)
    /\ UNCHANGED thread_lock

Emit ==
    \E event \in Events, e \in Emissions :
        /\ emit(event, e[1], e[2])
        /\ UNCHANGED <<managers, caller, dispatch, pc, tcall, local>>

Next == Register \/ Deregister \/ Emit

Spec == Init /\ [][Next]_vars

\* The same calls on an instance constructed with thread_safe=True.
SpecThreadSafe == InitThreadSafe /\ [][Next]_vars

\* ---------------------------------------------------------- several instances
\* self._handlers: no instance ever assigns the attribute (register and
\* deregister only write into the dict, lines 74, 85, 142, 145), so for every
\* instance the name resolves to the class attribute of line 18.
get_registered_handlers(self) == _handlers

\* The property events_list (lines 32-38).
events_list(self) == DOMAIN get_registered_handlers(self)

\* EventsManager(name): __init__ (lines 20-29) sets name and thread_safe and
\* nothing else.
Construct ==
    /\ managers < MaxManagers
    /\ managers' = managers + 1
    /\ caller' = managers + 1
    /\ pre' = _handlers
    /\ last' = Call("__init__", "", PyNone, <<>>, EmptyKwargs)
    /\ raised' = "none"
    /\ calls' = <<>>
    /\ UNCHANGED <<_handlers, thread_lock, dispatch, pc, tcall, local>>

RegisterOn ==
    \E self \in 1..managers, event \in Events, r \in Registrations :
        /\ Size(_handlers) + (IF event \in DOMAIN _handlers THEN 1 ELSE 2) <= MaxSize
        /\ register(event, r[1], r[2], r[3])
        /\ caller' = self
        /\ UNCHANGED <<managers, dispatch, pc, tcall, local>>

DeregisterOn ==
    \E self \in 1..managers, event \in Events, d \in Deregistrations :
        /\ deregister(event, d[1], d[2], d[3])
        /\ caller' = self
        /\ UNCHANGED <<managers, dispatch, pc, tcall, local>>

EmitOn ==
    \E self \in 1..managers, event \in Events, e \in Emissions :
        /\ emit(event, e[1], e[2])
        /\ caller' = self
        /\ UNCHANGED <<managers, dispatch, pc, tcall, local>>

NextInstances == Construct \/ RegisterOn \/ DeregisterOn \/ EmitOn

SpecInstances == Init /\ [][NextInstances]_vars

\* ------------------------------------------------------------ properties
\* The records under an event key, none when the key is absent.
ListOf(handlers, event) ==
    IF event \in DOMAIN handlers THEN handlers[event] ELSE <<>>

Ids(list) == { list[i].handler_id : i \in 1..Len(list) }

Registered == last.op = "register" /\ raised = "none"
Deregistered == last.op = "deregister" /\ raised = "none"
Emitted == last.op = "emit"

\* Every key but `event` has the records it had before the last call.
OthersUnchanged(event) ==
    \A e \in Events \ {event} :
        /\ e \in DOMAIN _handlers <=> e \in DOMAIN pre
        /\ ListOf(_handlers, e) = ListOf(pre, e)

\* C1: a register that succeeds appends one record to the key's list, and its
\* handler_id is the smallest non-negative integer no record of the key had.
C1_SmallestFreeId ==
    Registered =>
        LET old == ListOf(pre, last.event)
            new == ListOf(_handlers, last.event)
            id == new[Len(new)].handler_id
        IN /\ Len(new) = Len(old) + 1
           /\ SubSeq(new, 1, Len(old)) = old
           /\ id \in Nat
           /\ id \notin Ids(old)
           /\ \A n \in 0..(id - 1) : n \in Ids(old)

\* A register that reused the id 0 freed by a deregister: the list reads 1, 0.
C1_Witness ==
    /\ Registered
    /\ Len(ListOf(_handlers, last.event)) = 2
    /\ _handlers[last.event][1].handler_id = 1
    /\ _handlers[last.event][2].handler_id = 0

\* C2: no two records under one event key have the same handler_id.
C2_UniqueIds ==
    \A e \in DOMAIN _handlers :
        \A i, j \in 1..Len(_handlers[e]) :
            i # j => _handlers[e][i].handler_id # _handlers[e][j].handler_id

\* Three records under one key after ids were freed and reused: 2, 0, 1.
C2_Witness ==
    /\ Registered
    /\ Len(ListOf(_handlers, last.event)) = 3
    /\ _handlers[last.event][1].handler_id = 2
    /\ _handlers[last.event][2].handler_id = 0

\* C3: after every call each key of the mapping has at least one record; a
\* deregister that passed its checks leaves its key present exactly when one
\* of the key's records was not marked for removal.
C3_NoEmptyList ==
    /\ \A e \in DOMAIN _handlers : Len(_handlers[e]) >= 1
    /\ Deregistered =>
          (last.event \in DOMAIN _handlers
             <=> \E i \in 1..Len(pre[last.event]) :
                    ~Marked(last.target, last.args, last.kwargs, pre[last.event][i]))

\* A deregister by handler reference removed both records of a key, and the
\* key with them.
C3_Witness ==
    /\ Deregistered
    /\ callable(last.target)
    /\ Len(ListOf(pre, last.event)) = 2
    /\ last.event \notin DOMAIN _handlers

\* The invocation of a record with exactly its captured defaults.
DefaultInvocation(record) ==
    [handler |-> record.handler, handler_id |-> record.handler_id,
     args |-> record.args[1], kwargs |-> record.args[2]]

\* C4: emit(key) without override arguments invokes each record of the key
\* once, in list order, with its own default args and kwargs, and invokes
\* nothing else.
C4_EmitDefaults ==
    (Emitted /\ last.args = <<>> /\ last.kwargs = EmptyKwargs) =>
        LET list == ListOf(pre, last.event)
        IN /\ Len(calls) = Len(list)
           /\ \A i \in 1..Len(list) : calls[i] = DefaultInvocation(list[i])

\* An emit without arguments on a key whose list order (ids 1, 0) is not the
\* id order, and whose two records have different defaults.
C4_Witness ==
    /\ Emitted /\ last.args = <<>> /\ last.kwargs = EmptyKwargs
    /\ Len(calls) = 2
    /\ calls[1].handler_id = 1 /\ calls[2].handler_id = 0
    /\ calls[1].args # calls[2].args

\* C5: emit calls every record of the key with the call's positional
\* arguments when there are any and the record's default args otherwise, and
\* with the record's default kwargs overridden name by name by the call's.
C5_EmitOverride ==
    Emitted =>
        LET list == ListOf(pre, last.event)
        IN /\ Len(calls) = Len(list)
           /\ \A i \in 1..Len(list) :
                LET defaults == list[i].args[2]
                IN /\ calls[i].handler = list[i].handler
                   /\ calls[i].handler_id = list[i].handler_id
                   /\ calls[i].args =
                         (IF last.args # <<>> THEN last.args ELSE list[i].args[1])
                   /\ DOMAIN calls[i].kwargs = DOMAIN defaults \cup DOMAIN last.kwargs
                   /\ \A n \in DOMAIN calls[i].kwargs :
                         calls[i].kwargs[n] =
                           (IF n \in DOMAIN last.kwargs THEN last.kwargs[n] ELSE defaults[n])

\* emit(key, "C", y=2) reached a record with defaults ("A", "B") and x=1: it
\* was called with ("C",) and x=1, y=2.
C5_Witness ==
    /\ Emitted
    /\ \E i \in 1..Len(calls) :
          /\ pre[last.event][i].args = << <<"A", "B">>, Kw("x", 1) >>
          /\ calls[i].args = <<"C">>
          /\ calls[i].kwargs = [x |-> 1, y |-> 2]

\* The scenario of C6: under "k", h registered with ("A",) and then h
\* registered with x=1, and emit("k", x=2) is the last call.
C6_Scenario ==
    /\ Emitted /\ last.event = "k"
    /\ last.args = <<>> /\ last.kwargs = Kw("x", 2)
    /\ Len(ListOf(pre, "k")) = 2
    /\ pre["k"][1].handler = h /\ pre["k"][1].args = << <<"A">>, EmptyKwargs >>
    /\ pre["k"][2].handler = h /\ pre["k"][2].args = << <<>>, Kw("x", 1) >>

\* C6 as stated: the second record is called as h(x=2) and the first as
\* h("A"), without x.
C6_FirstRecordUnaffected ==
    C6_Scenario =>
        /\ Len(calls) = 2
        /\ calls[2].args = <<>> /\ calls[2].kwargs = Kw("x", 2)
        /\ calls[1].args = <<"A">> /\ calls[1].kwargs = EmptyKwargs

\* C6 amended: the second record is called as h(x=2) and the first as
\* h("A", x=2): the call's kwargs reach a record that has no named defaults.
C6_KwargsReachEveryRecord ==
    C6_Scenario =>
        /\ Len(calls) = 2
        /\ calls[2].handler = h
        /\ calls[2].args = <<>> /\ calls[2].kwargs = Kw("x", 2)
        /\ calls[1].handler = h
        /\ calls[1].args = <<"A">> /\ calls[1].kwargs = Kw("x", 2)

C6_Witness == C6_Scenario /\ Len(calls) = 2

\* The registry after the records of `event` were replaced by `list`; a key
\* left without records is gone.
WithList(handlers, event, list) ==
    IF list = <<>>
    THEN [e \in DOMAIN handlers \ {event} |-> handlers[e]]
    ELSE [e \in DOMAIN handlers \cup {event} |-> IF e = event THEN list ELSE handlers[e]]

\* C7: deregister(key) of a present key, with no selector and no match
\* arguments, removes the key with all its records and changes no other key.
C7_DeregisterAll ==
    ( /\ last.op = "deregister"
      /\ last.target = PyNone /\ last.args = <<>> /\ last.kwargs = EmptyKwargs
      /\ last.event \in DOMAIN pre ) =>
        /\ raised = "none"
        /\ last.event \notin DOMAIN _handlers
        /\ OthersUnchanged(last.event)

\* deregister(key) removed a key that had two records.
C7_Witness ==
    /\ Deregistered
    /\ last.target = PyNone /\ last.args = <<>> /\ last.kwargs = EmptyKwargs
    /\ Len(ListOf(pre, last.event)) = 2
    /\ last.event \notin DOMAIN _handlers

\* The selection the specification gives: the record has the selected handler
\* or handler_id, default args equal to the match args when there are any, and
\* default kwargs equal to the match kwargs when there are any.
Selected(selector, args, kwargs, record) ==
    /\ selector.type = "function" => record.handler = selector
    /\ selector.type = "int" => record.handler_id = selector.val
    /\ args # <<>> => record.args[1] = args
    /\ kwargs # EmptyKwargs => record.args[2] = kwargs

\* C8: deregister of a present key by handler reference or by integer
\* handler_id removes exactly the selected records, keeps the others as they
\* were and in their order, changes no other key, and by id removes at most
\* one record.
C8_DeregisterSelected ==
    ( /\ last.op = "deregister"
      /\ last.target.type \in {"function", "int"}
      /\ last.event \in DOMAIN pre ) =>
        LET old == pre[last.event]
            kept == SelectSeq(old, LAMBDA r : ~Selected(last.target, last.args, last.kwargs, r))
        IN /\ raised = "none"
           /\ _handlers = WithList(pre, last.event, kept)
           /\ last.target.type = "int" =>
                 Len(ListOf(_handlers, last.event)) >= Len(old) - 1

\* deregister(key, h, "A") removed the middle one of three records and left
\* the first and the third in place.
C8_Witness ==
    /\ Deregistered
    /\ last.target = h /\ last.args = <<"A">> /\ last.kwargs = EmptyKwargs
    /\ Len(ListOf(pre, last.event)) = 3
    /\ ListOf(_handlers, last.event) = <<pre[last.event][1], pre[last.event][3]>>

\* C9 as stated: deregister(key, None, *match_args) removes only the records
\* whose default args equal match_args.
C9_NoSelectorNarrowed ==
    ( /\ last.op = "deregister"
      /\ last.target = PyNone /\ last.args # <<>> /\ last.kwargs = EmptyKwargs
      /\ last.event \in DOMAIN pre ) =>
        LET kept == SelectSeq(pre[last.event], LAMBDA r : r.args[1] # last.args)
        IN _handlers = WithList(pre, last.event, kept)

\* C10 as stated: deregister of a present key with a selector that is neither
\* None, nor callable, nor an int raises and removes nothing.
C10_InvalidSelectorRaises ==
    ( /\ last.op = "deregister"
      /\ last.target.type \notin {"NoneType", "function", "int"}
      /\ last.event \in DOMAIN pre ) =>
        /\ raised = "AssertionError"
        /\ _handlers = pre

\* C11: deregister of an event key that is not in the registry raises, whatever
\* the selector and the match arguments, and leaves the mapping as it was.
C11_UnknownEventRaises ==
    (last.op = "deregister" /\ last.event \notin DOMAIN pre) =>
        /\ raised = "AssertionError"
        /\ _handlers = pre

\* deregister of an absent key was tried while the other key had records.
C11_Witness ==
    /\ last.op = "deregister"
    /\ last.event \notin DOMAIN pre
    /\ DOMAIN pre # {}
    /\ raised = "AssertionError"

\* C12: register of a handler that is not callable raises and leaves the
\* mapping as it was; an event key that was absent stays absent.
C12_NotCallableRaises ==
    (last.op = "register" /\ ~callable(last.target)) =>
        /\ raised = "TypeError"
        /\ _handlers = pre
        /\ last.event \notin DOMAIN pre => last.event \notin DOMAIN _handlers

\* register of a non-callable was tried on a key that was not present.
C12_Witness ==
    /\ last.op = "register"
    /\ ~callable(last.target)
    /\ last.event \notin DOMAIN pre
    /\ raised = "TypeError"

\* C13: emit leaves the mapping as it was (keys, order, handlers, ids, default
\* args and kwargs) and raises nothing; on an absent key it invokes nothing
\* and does not create the key.
C13_EmitLeavesRegistry ==
    Emitted =>
        /\ _handlers = pre
        /\ raised = "none"
        /\ last.event \notin DOMAIN pre => calls = <<>>

\* emit(key, x=2) reached a record whose stored named defaults are x=1.
C13_Witness ==
    /\ Emitted
    /\ last.kwargs = Kw("x", 2)
    /\ \E i \in 1..Len(calls) :
          /\ pre[last.event][i].args[2] = Kw("x", 1)
          /\ calls[i].kwargs = Kw("x", 2)

\* ------------------------------------------------- emit, handler by handler
\* What the body of an invoked handler does before it returns or fails.
HandlerBehaviours == {"returns", "raises", "registers", "deregisters"}

\* The mapping after the handler's body: it may call register(event, h) or
\* deregister(event, id) on the manager that is emitting.
AfterHandler(handlers, event, behaviour, id) ==
    IF behaviour = "registers"
      THEN RegisterResult(handlers, event, h, <<>>, EmptyKwargs)
    ELSE IF behaviour = "deregisters"
      THEN DeregisterResult(handlers, event, PyInt(id), <<>>, EmptyKwargs)
    ELSE handlers

\* StatusAfter catching the handler's exception and going on with the loop.
StatusAfter_Contained(behaviour, position, list) ==
    IF position < Len(list) THEN "running" ELSE "returned"

\* `for handler in self._handlers[event]` (line 160): an exception of the
\* handler leaves emit; otherwise the list iterator yields the item at its
\* index while the index is below the current length of the list.
StatusAfter(behaviour, position, list) ==
    IF behaviour = "raises" THEN "raised"
    ELSE IF position < Len(list) THEN "running" ELSE "returned"

\* Records are registered, one call at a time, before the emit.
RegisterBeforeEmit ==
    /\ dispatch.status = "idle"
    /\ \E r \in Registrations :
          /\ Size(_handlers) + (IF "k" \in DOMAIN _handlers THEN 1 ELSE 2) <= MaxSize
          /\ register("k", r[1], r[2], r[3])
    /\ UNCHANGED <<managers, caller, dispatch, pc, tcall, local>>

\* Lines 157-160: emit returns for an absent key, else the loop starts on the
\* key's list.
StartEmit ==
    /\ dispatch.status = "idle"
    /\ \E event \in Events, e \in Emissions :
          /\ last' = Call("emit", event, PyNone, e[1], e[2])
          /\ dispatch' = [Idle EXCEPT !.status =
                StatusAfter("returns", 0,
                            IF event \in DOMAIN _handlers THEN _handlers[event] ELSE <<>>)]
    /\ pre' = _handlers
    /\ raised' = "none"
    /\ calls' = <<>>
    /\ UNCHANGED <<_handlers, thread_lock, managers, caller, pc, tcall, local>>

\* Lines 160-181, one iteration: the record at the iterator's index is invoked,
\* the handler's body runs, and the iterator moves on. The list iterated is
\* the list object of the key: it sees the appends and pops the handler makes;
\* once deregister has deleted the key (line 145) it is the emptied list.
InvokeNext ==
    /\ dispatch.status = "running"
    /\ LET event == last.event
           list == _handlers[event]
           record == list[dispatch.index + 1]
       IN \E behaviour \in HandlerBehaviours,
             id \in {list[i].handler_id : i \in 1..(dispatch.index + 1)} :
            /\ behaviour # "deregisters" => id = record.handler_id
            /\ behaviour = "registers" => Size(_handlers) + 1 <= MaxSize
            /\ calls' = Append(calls, Invoke(record, last.args, last.kwargs))
            /\ raised' = IF behaviour = "raises" THEN "HandlerError" ELSE raised
            /\ _handlers' = AfterHandler(_handlers, event, behaviour, id)
            /\ dispatch' =
                 [status |-> StatusAfter(behaviour, dispatch.index + 1,
                                IF event \in DOMAIN _handlers'
                                THEN _handlers'[event] ELSE <<>>),
                  index |-> dispatch.index + 1,
                  registered |-> dispatch.registered \/ behaviour = "registers",
                  deregistered |-> dispatch.deregistered \/ behaviour = "deregisters"]
    /\ UNCHANGED <<thread_lock, pre, last, managers, caller, pc, tcall, local>>

NextDispatch == RegisterBeforeEmit \/ StartEmit \/ InvokeNext

SpecDispatch == Init /\ [][NextDispatch]_vars

\* ------------------------------------------------------- concurrent threads
\* The calls the threads make on one thread-safe instance, one call each.
ThreadCalls ==
    { Call("register", "k", h, <<"A">>, EmptyKwargs),
      Call("register", "k", g, <<>>, Kw("x", 1)),
      Call("register", "j", h, <<>>, EmptyKwargs),
      Call("register", "k", NotCallable, <<>>, EmptyKwargs),
      Call("deregister", "k", PyNone, <<>>, EmptyKwargs),
      Call("deregister", "k", PyInt(0), <<>>, EmptyKwargs),
      Call("deregister", "k", NotCallable, <<>>, EmptyKwargs) }

\* The statements between acquire and release.
CriticalSection ==
    { "register_check", "register_search", "register_append", "register_release",
      "deregister_check", "deregister_scan", "deregister_pop", "deregister_release" }

\* The exception leaves the call; nothing releases the lock.
Fail(t) == pc' = [pc EXCEPT ![t] = "failed"]

\* Lines 67-68 and 101-102: the thread enters its call and takes the lock.
Acquire(t) ==
    /\ pc[t] = "start"
    /\ CanAcquire
    /\ \E c \in ThreadCalls :
          /\ tcall' = [tcall EXCEPT ![t] = c]
          /\ pc' = [pc EXCEPT ![t] = c.op \o "_check"]
    /\ thread_lock' = LockAfterAcquire
    /\ UNCHANGED <<_handlers, local>>

\* Lines 70-74: the callable test, then the key's list is created.
RegisterCheck(t) ==
    /\ pc[t] = "register_check"
    /\ IF ~callable(tcall[t].target)
       THEN Fail(t) /\ UNCHANGED _handlers
       ELSE /\ pc' = [pc EXCEPT ![t] = "register_search"]
            /\ _handlers' = [e \in DOMAIN _handlers \cup {tcall[t].event} |->
                                IF e \in DOMAIN _handlers THEN _handlers[e] ELSE <<>>]
    /\ UNCHANGED <<thread_lock, tcall, local>>

\* Lines 76-83: the search for a free handler_id.
RegisterSearch(t) ==
    /\ pc[t] = "register_search"
    /\ IF tcall[t].event \notin DOMAIN _handlers
       THEN Fail(t) /\ UNCHANGED local
       ELSE /\ pc' = [pc EXCEPT ![t] = "register_append"]
            /\ local' = [local EXCEPT ![t].handler_id =
                                        NewHandlerId(_handlers[tcall[t].event])]
    /\ UNCHANGED <<_handlers, thread_lock, tcall>>

\* Lines 85-90: the record is appended with the id found.
RegisterAppend(t) ==
    /\ pc[t] = "register_append"
    /\ IF tcall[t].event \notin DOMAIN _handlers
       THEN Fail(t) /\ UNCHANGED _handlers
       ELSE /\ pc' = [pc EXCEPT ![t] = "register_release"]
            /\ _handlers' = [_handlers EXCEPT ![tcall[t].event] =
                  Append(@, HandlerRecord(tcall[t].target, local[t].handler_id,
                                          tcall[t].args, tcall[t].kwargs))]
    /\ UNCHANGED <<thread_lock, tcall, local>>

\* Lines 104-107: the assertions.
DeregisterCheck(t) ==
    /\ pc[t] = "deregister_check"
    /\ IF tcall[t].event \notin DOMAIN _handlers \/ ~SelectorAccepted(tcall[t].target)
       THEN Fail(t)
       ELSE pc' = [pc EXCEPT ![t] = "deregister_scan"]
    /\ UNCHANGED <<_handlers, thread_lock, tcall, local>>

\* Lines 109-139: the records to remove are collected and the indexes adjusted.
DeregisterScan(t) ==
    /\ pc[t] = "deregister_scan"
    /\ IF tcall[t].event \notin DOMAIN _handlers
       THEN Fail(t) /\ UNCHANGED local
       ELSE /\ pc' = [pc EXCEPT ![t] = "deregister_pop"]
            /\ local' = [local EXCEPT ![t].pop_indexes =
                  AdjustIndexes(PopIndexes(_handlers[tcall[t].event], tcall[t].target,
                                           tcall[t].args, tcall[t].kwargs))]
    /\ UNCHANGED <<_handlers, thread_lock, tcall>>

\* list.pop raises IndexError for a position past the end of the list.
RECURSIVE PopsInRange(_, _)
PopsInRange(list, pop_indexes) ==
    \/ pop_indexes = <<>>
    \/ /\ Head(pop_indexes) < Len(list)
       /\ PopsInRange(pop(list, Head(pop_indexes)), Tail(pop_indexes))

\* The list after the pops made before the first one that is out of range.
RECURSIVE PopWhileInRange(_, _)
PopWhileInRange(list, pop_indexes) ==
    IF pop_indexes = <<>> \/ Head(pop_indexes) >= Len(list) THEN list
    ELSE PopWhileInRange(pop(list, Head(pop_indexes)), Tail(pop_indexes))

\* Lines 141-145: the pops, then an emptied list is deleted with its key.
DeregisterPop(t) ==
    /\ pc[t] = "deregister_pop"
    /\ IF tcall[t].event \notin DOMAIN _handlers
       THEN Fail(t) /\ UNCHANGED _handlers
       ELSE LET event == tcall[t].event
                list == PopWhileInRange(_handlers[event], local[t].pop_indexes)
            IN IF ~PopsInRange(_handlers[event], local[t].pop_indexes)
               THEN Fail(t) /\ _handlers' = [_handlers EXCEPT ![event] = list]
               ELSE /\ pc' = [pc EXCEPT ![t] = "deregister_release"]
                    /\ _handlers' =
                         IF Len(list) = 0
                         THEN [e \in DOMAIN _handlers \ {event} |-> _handlers[e]]
                         ELSE [_handlers EXCEPT ![event] = list]
    /\ UNCHANGED <<thread_lock, tcall, local>>

\* Lines 92-93 and 147-148: the lock is released and the call returns.
Release(t) ==
    /\ pc[t] \in {"register_release", "deregister_release"}
    /\ thread_lock' = LockReleased
    /\ pc' = [pc EXCEPT ![t] = "done"]
    /\ UNCHANGED <<_handlers, tcall, local>>

ThreadStep ==
    \E t \in Threads :
        \/ Acquire(t)
        \/ RegisterCheck(t)
        \/ RegisterSearch(t)
        \/ RegisterAppend(t)
        \/ DeregisterCheck(t)
        \/ DeregisterScan(t)
        \/ DeregisterPop(t)
        \/ Release(t)

NextThreads ==
    ThreadStep /\ UNCHANGED <<pre, last, raised, calls, managers, caller, dispatch>>

SpecThreads == InitThreadSafe /\ [][NextThreads]_vars

\* The invocations emit makes of the first n records of a list.
FirstCalls(list, n, args, kwargs) ==
    [i \in 1..n |-> Invoke(list[i], args, kwargs)]

\* C14: when the handler at position i of the emitted key's list fails, and
\* no handler has called back into the registry, the failure leaves emit, the
\* invocations made are those of the first i records, each once and in list
\* order (so none after position i), and the mapping is as it was before emit.
C14_FailureStopsDispatch ==
    (Emitted /\ raised = "HandlerError"
        /\ ~dispatch.registered /\ ~dispatch.deregistered) =>
        /\ dispatch.status = "raised"
        /\ dispatch.index <= Len(pre[last.event])
        /\ calls = FirstCalls(pre[last.event], dispatch.index, last.args, last.kwargs)
        /\ _handlers = pre

\* The second of three records failed: one handler ran before it, one is left.
C14_Witness ==
    /\ Emitted
    /\ dispatch.status = "raised"
    /\ ~dispatch.registered /\ ~dispatch.deregistered
    /\ dispatch.index = 2
    /\ Len(pre[last.event]) = 3

\* How many of the invocations were made for the record with this handler_id.
TimesInvoked(id) == Cardinality({n \in 1..Len(calls) : calls[n].handler_id = id})

\* C19 as stated: after an emit during which handlers deregistered records of
\* the emitted key (themselves or earlier ones) and did nothing else, every
\* record that was registered at the call and still is at the return has been
\* invoked exactly once.
C19_SurvivorsInvokedOnce ==
    (Emitted /\ dispatch.status = "returned"
        /\ dispatch.deregistered /\ ~dispatch.registered) =>
        \A id \in Ids(ListOf(pre, last.event)) \cap Ids(ListOf(_handlers, last.event)) :
            TimesInvoked(id) = 1

\* C20 as stated: an emit during which handlers registered further handlers
\* on the emitted key, and did nothing else, invokes only records that were
\* registered when it was called, each at most once.
C20_OnlySnapshotInvoked ==
    (Emitted /\ dispatch.registered /\ ~dispatch.deregistered) =>
        /\ Len(calls) <= Len(ListOf(pre, last.event))
        /\ \A n \in 1..Len(calls) : calls[n].handler_id \in Ids(ListOf(pre, last.event))

\* C15: in thread-safe mode at most one thread at a time is between its lock
\* acquire and its lock release, whatever register and deregister calls the
\* threads make.
C15_MutualExclusion ==
    Cardinality({t \in Threads : pc[t] \in CriticalSection}) <= 1

\* A thread is inside its critical section while another one, having started
\* later or earlier, waits for the lock or has finished.
C15_Witness ==
    \E t, u \in Threads :
        /\ pc[t] \in {"register_append", "deregister_pop"}
        /\ pc[u] = "done"

\* Every thread has returned from one register call on the key "k".
AllRegisteredOnK ==
    \A t \in Threads :
        /\ pc[t] = "done"
        /\ tcall[t].op = "register"
        /\ tcall[t].event = "k"

\* C16: in thread-safe mode, once N threads have each registered once on the
\* same key, the key holds exactly N records with N distinct handler_ids,
\* under every interleaving.
C16_NoLostRegistration ==
    AllRegisteredOnK =>
        /\ "k" \in DOMAIN _handlers
        /\ Len(_handlers["k"]) = NumThreads
        /\ Cardinality({_handlers["k"][i].handler_id : i \in 1..Len(_handlers["k"])})
             = NumThreads

C16_Witness == AllRegisteredOnK

\* C17 as stated: a newly constructed instance has no event keys, and a
\* register or deregister on one instance leaves what every other instance
\* shows as it was.
C17_OwnMapping ==
    /\ last.op = "__init__" => events_list(caller) = {}
    /\ last.op \in {"register", "deregister"} =>
          \A other \in (1..managers) \ {caller} : get_registered_handlers(other) = pre

\* C18 as stated: after a register or deregister call, failed ones included,
\* the lock is not held and the next call can acquire it.
C18_LockNotLeftHeld ==
    last.op \in {"register", "deregister"} => CanAcquire
====
